---- MODULE Spec2Model ----
(***************************************************************************)
(* Model of the Git Sync plugin (src/main.ts, the implementation with the  *)
(* stash / fetch / rebase / pop protocol, lines 506-1275).                 *)
(*                                                                         *)
(* The plugin is an event-driven, single-threaded object: every `await`    *)
(* is a suspension point at which any other callback (timer tick, command, *)
(* settings handler, the version check of initializeGit) may run.  One     *)
(* action of the model is one synchronous segment of code: from a callback *)
(* entry or the resumption of an await up to the next await or return.     *)
(* The results of the external git client are inputs drawn from small sets.*)
(***************************************************************************)
EXTENDS Integers, Sequences, FiniteSets, TLC

(***************************************************************************)
(* Bounds of the model.                                                    *)
(***************************************************************************)
MaxRuns == 2        \* syncVault invocations that can be suspended at once
MaxClients == 2     \* simpleGit clients alive at once
MaxStash == 2       \* entries of the repository's stash stack
MaxClock == 2       \* the wall clock reads 0..MaxClock (half seconds)
MaxHandlers == 2    \* settings handlers suspended on saveSettings at once

Runs == 1..MaxRuns

(***************************************************************************)
(* Strings.  A message is a sequence of tokens; String.includes is the     *)
(* contiguous-subsequence test on tokens.                                  *)
(***************************************************************************)
Includes(s, p) ==
  \E i \in 0..(Len(s) - Len(p)) : SubSeq(s, i + 1, i + Len(p)) = p

P_CONFLICT == <<"CONFLICT">>
P_conflict == <<"conflict">>
P_HostKey == <<"Host", "key", "verification", "failed">>
P_PermissionDenied == <<"Permission", "denied">>
P_NotARepo == <<"not", "a", "git", "repository">>
P_NoRemote == <<"Could", "not", "read", "from", "remote", "repository">>
P_MergeConflictDuringRebase == <<"Merge", "conflict", "during", "rebase">>
P_RebaseOperationAborted ==
  <<"Merge", "conflict", "during", "rebase", ",", "operation", "aborted">>
P_ConflictApplying == <<"Conflict", "applying", "stashed", "changes">>

\* Errors are records: the message and whether error.git carries a failed
\* response whose message includes "conflict".
Err(m, g) == [message |-> m, gitConflict |-> g]

\* Errors thrown by the engine itself.
E_RebaseAborted ==
  Err(<<"Merge", "conflict", "during", "rebase", ",", "operation", "aborted", ".">>, FALSE)
E_StashConflict ==
  Err(<<"Conflict", "applying", "stashed", "changes", ".", "Manual", "resolution", "needed", ".">>, FALSE)
E_NotOnBranch ==
  Err(<<"Git", "Sync", ":", "Not", "on", "a", "branch", ",", "cannot", "sync", ".">>, FALSE)
\* `this.git.op(...)` evaluated while this.git is null.
E_NullClient ==
  Err(<<"Cannot", "read", "properties", "of", "null">>, FALSE)

\* Rejections of the git client (simple-git rejects with an Error).
E_Conflict ==
  Err(<<"CONFLICT", "(content)", ":", "Merge", "conflict", "in", "note.md">>, FALSE)
E_LowerConflict ==
  Err(<<"error", ":", "could", "not", "apply", ",", "unresolved", "conflict">>, FALSE)
E_Auth ==
  Err(<<"Permission", "denied", "(publickey)", ".", "fatal", ":", "Could", "not",
        "read", "from", "remote", "repository", ".">>, FALSE)
E_HostKey == Err(<<"Host", "key", "verification", "failed", ".">>, FALSE)
E_NotARepo == Err(<<"fatal", ":", "not", "a", "git", "repository">>, FALSE)
E_Remote ==
  Err(<<"fatal", ":", "Could", "not", "read", "from", "remote", "repository", ".">>, FALSE)
E_Generic == Err(<<"fatal", ":", "unable", "to", "access", "remote">>, FALSE)
E_GitConflict == Err(<<"fatal", ":", "unable", "to", "access", "remote">>, TRUE)

\* The rejections the engine is run against: one per way its handlers branch
\* (a CONFLICT marker, a lower-case conflict, neither) and per kind of report
\* that decides what is left to the user.
GitErrors == { E_Conflict, E_LowerConflict, E_Remote, E_Generic }

(***************************************************************************)
(* handleSyncError: the report (status text, notice, kind) of a failure.   *)
(***************************************************************************)
Report(b, n, k) == [bar |-> b, notice |-> n, kind |-> k]

\* The handler of the file's first implementation (lines 266-302): it has no
\* test of the message for the lower-case word and no branch for the
\* engine's own two messages.
handleSyncErrorFirst(error) ==
  IF \/ Includes(error.message, P_CONFLICT)
     \/ error.gitConflict
    THEN Report("Conflict!", "ErrMergeConflict", "conflict")
  ELSE IF \/ Includes(error.message, P_HostKey)
          \/ Includes(error.message, P_PermissionDenied)
    THEN Report("Auth Error", "ErrAuth", "auth")
  ELSE IF Includes(error.message, P_NotARepo)
    THEN Report("Not a repo", "ErrNotARepo", "notrepo")
  ELSE IF Includes(error.message, P_NoRemote)
    THEN Report("Remote Error", "ErrRemote", "remote")
  ELSE Report("Sync Error", "ErrGeneric", "generic")

handleSyncErrorAuthFirst(error) ==
  LET message == error.message IN
  IF \/ Includes(message, P_HostKey)
     \/ Includes(message, P_PermissionDenied)
    THEN Report("Auth Error", "ErrAuth", "auth")
  ELSE IF \/ Includes(message, P_CONFLICT)
          \/ Includes(message, P_conflict)
          \/ error.gitConflict
    THEN Report("Conflict!", "ErrConflict", "conflict")
  ELSE IF Includes(message, P_NotARepo)
    THEN Report("Not a repo", "ErrNotARepo", "notrepo")
  ELSE IF Includes(message, P_NoRemote)
    THEN Report("Remote Error", "ErrRemote", "remote")
  ELSE IF Includes(message, P_RebaseOperationAborted)
    THEN Report("Rebase Conflict!", "ErrRebaseConflict", "rebaseConflict")
  ELSE IF Includes(message, P_ConflictApplying)
    THEN Report("Stash Conflict!", "ErrStashConflict", "stashConflict")
  ELSE Report("Sync Error", "ErrGeneric", "generic")

handleSyncError(error) ==
  LET message == error.message IN
  IF \/ Includes(message, P_CONFLICT)
     \/ Includes(message, P_conflict)
     \/ error.gitConflict
    THEN Report("Conflict!", "ErrConflict", "conflict")
  ELSE IF \/ Includes(message, P_HostKey)
          \/ Includes(message, P_PermissionDenied)
    THEN Report("Auth Error", "ErrAuth", "auth")
  ELSE IF Includes(message, P_NotARepo)
    THEN Report("Not a repo", "ErrNotARepo", "notrepo")
  ELSE IF Includes(message, P_NoRemote)
    THEN Report("Remote Error", "ErrRemote", "remote")
  ELSE IF Includes(message, P_RebaseOperationAborted)
    THEN Report("Rebase Conflict!", "ErrRebaseConflict", "rebaseConflict")
  ELSE IF Includes(message, P_ConflictApplying)
    THEN Report("Stash Conflict!", "ErrStashConflict", "stashConflict")
  ELSE Report("Sync Error", "ErrGeneric", "generic")


(***************************************************************************)
(* Output of `git stash push -u -m GitSync_Autostash` and the test that    *)
(* decides whether something was stashed.                                  *)
(***************************************************************************)
LowerToken(t) ==
  CASE t = "No" -> "no"
    [] t = "Saved" -> "saved"
    [] t = "On" -> "on"
    [] t = "GitSync_Autostash" -> "gitsync_autostash"
    [] OTHER -> t

toLowerCase(s) == [i \in 1..Len(s) |-> LowerToken(s[i])]

Out_Saved ==
  <<"Saved", "working", "directory", "and", "index", "state", "On", "main", ":",
    "GitSync_Autostash">>
Out_NothingToSave == <<"No", "local", "changes", "to", "save">>

\* What the repository did and what git printed.
StashPushOutputs ==
  { [created |-> TRUE, text |-> Out_Saved],
    [created |-> FALSE, text |-> Out_NothingToSave] }

StashedByAnyOutput(stashResult) == stashResult # <<>>

StashedBy(stashResult) ==
  /\ stashResult # <<>>
  /\ ~Includes(toLowerCase(stashResult), <<"no", "local", "changes", "to", "save">>)

(***************************************************************************)
(* Snapshots (StatusResult).  A file is its index / working_dir flags.     *)
(***************************************************************************)
File(i, w) == [index |-> i, working_dir |-> w]

FileStates == { File(" ", "M"), File("M", " "), File("?", "?") }

hasLocalChanges(files) ==
  \E file \in files :
    \/ file.working_dir # " "
    \/ (file.index # " " /\ file.index # "?")

filesToCommit(files) ==
  { file \in files : file.index # " " /\ file.index # "?" }

Behinds == {0, 2}
Aheads == {0, 1}

(***************************************************************************)
(* Time.  moment() reads the wall clock, in half seconds; its              *)
(* format("YYYY-MM-DD HH:mm:ss") keeps whole seconds.  lastSync is "Never" *)
(* before the first success.                                               *)
(***************************************************************************)
Never == -1
Times == 0..MaxClock
Format(t) == t \div 2


(***************************************************************************)
(* State.                                                                  *)
(***************************************************************************)
VARIABLES
  phase,          \* "new", "loaded" (after onload), "unloaded" (after onunload)
  isLocal,        \* the vault adapter is a FileSystemAdapter
  git,            \* this.git: 0 is null, otherwise the id of a client
  versionPending, \* clients whose version() check has not settled yet
  isSyncing,      \* this.isSyncing
  settings,       \* this.settings
  saved,          \* the settings record persisted by saveData
  syncInterval,   \* this.syncInterval: 0 is unset, otherwise a timer id
  timers,         \* timers installed in the host: timer id -> period in ms
  statusBar,      \* text of the status bar item
  lastCall,       \* how the latest syncVault invocation left its preconditions
  stash,          \* the repository's stash stack (top is the last element)
  handlers,       \* settings-tab handlers suspended on `await saveSettings()`
  run             \* the suspended syncVault invocations and their history

vars ==
  <<phase, isLocal, git, versionPending, isSyncing, settings, saved,
    syncInterval, timers, statusBar, lastCall, stash, handlers, run>>

DEFAULT_SETTINGS ==
  [commitInterval |-> 15, repoUrl |-> "", autoSync |-> TRUE, lastSync |-> Never,
   logMaxEntries |-> 50]

\* What loadData can return: the settings persisted by an earlier session or
\* edited on disk.
LoadedData(intervals) ==
  { [commitInterval |-> ci, repoUrl |-> u, autoSync |-> a, lastSync |-> Never,
     logMaxEntries |-> 50] :
      ci \in intervals, u \in {"", "git@host:vault.git"}, a \in BOOLEAN }

NoSnapshot == [seen |-> FALSE, current |-> FALSE, tracking |-> FALSE, behind |-> 0]

\* A slot of `run`.  pc, stashed and tracking are the invocation's position and
\* locals; the other fields record what the invocation did.
IdleRun ==
  [pc |-> "idle", stashed |-> FALSE, tracking |-> FALSE,
   hasLocal |-> "unknown", created |-> FALSE, popped |-> FALSE,
   snap |-> NoSnapshot, staged |-> -1, lastSync0 |-> Never, stash0 |-> <<>>,
   rebaseError |-> <<>>, save |-> "none", failure |-> Err(<<>>, FALSE),
   client |-> 0, time |-> -1,
   ops |-> <<>>, res |-> <<>>, notices |-> <<>>, bar |-> <<>>,
   outcome |-> "none"]

Free(rs) == { r \in Runs : rs[r].pc \in {"idle", "done"} }
InProtocol(rs) == { r \in Runs : rs[r].pc \notin {"idle", "done"} }

Notify(rr, n) == [rr EXCEPT !.notices = Append(@, n)]
Bar(rr, b) == [rr EXCEPT !.bar = Append(@, b)]
Returned(rr, x) == [rr EXCEPT !.res = Append(@, x)]
Invoked(rr, op, pc) ==
  [rr EXCEPT !.ops = Append(@, op), !.pc = pc, !.client = git]
Ended(rr, o) == [rr EXCEPT !.pc = "done", !.outcome = o]

\* `await this.git.op(...)`: the operation is issued on the current client;
\* with this.git null the call throws and `thrown` is what the enclosing
\* handler makes of it.
Call(rr, op, pc, thrown) == IF git = 0 THEN thrown ELSE Invoked(rr, op, pc)

(***************************************************************************)
(* The plugin's fields as one record, for the synchronous methods that     *)
(* call each other (onload, initializeGit, startAutoSync, syncVault).      *)
(***************************************************************************)
Plugin ==
  [git |-> git, versionPending |-> versionPending,
   isSyncing |-> isSyncing, settings |-> settings, saved |-> saved,
   syncInterval |-> syncInterval, timers |-> timers, statusBar |-> statusBar,
   lastCall |-> lastCall, run |-> run]

Becomes(p) ==
  /\ git' = p.git
  /\ versionPending' = p.versionPending
  /\ isSyncing' = p.isSyncing
  /\ settings' = p.settings
  /\ saved' = p.saved
  /\ syncInterval' = p.syncInterval
  /\ timers' = p.timers
  /\ statusBar' = p.statusBar
  /\ lastCall' = p.lastCall
  /\ run' = p.run

\* Clients are told apart by an id; a client is alive while the plugin, a
\* pending version check or an invocation in the protocol refers to it.
Alive(p) ==
  ({p.git} \cup p.versionPending \cup { p.run[r].client : r \in InProtocol(p.run) })
    \ {0}

NewClient(p) == CHOOSE c \in 1..MaxClients \ Alive(p) :
                  \A d \in 1..MaxClients \ Alive(p) : c <= d

initializeGit(p) ==
  IF isLocal
    THEN [p EXCEPT !.git = NewClient(p),
                   !.versionPending = @ \cup {NewClient(p)}]
    ELSE [p EXCEPT !.git = 0,
                   !.statusBar = "Error: Not local vault"]

\* initializeGit can create another client within the bound.
CanInitialize(p) == isLocal => 1..MaxClients \ Alive(p) # {}

NewTimer(p) == CHOOSE t \in 1..(Cardinality(DOMAIN p.timers) + 1) : t \notin DOMAIN p.timers

startAutoSyncAgain(p) ==
  LET intervalMillis == p.settings.commitInterval * 60 * 1000 IN
  IF p.git = 0 THEN p
  ELSE IF intervalMillis <= 0 THEN p
  ELSE LET t == NewTimer(p) IN
       [p EXCEPT !.syncInterval = t,
                 !.timers = [x \in DOMAIN @ \cup {t} |->
                               IF x = t THEN intervalMillis ELSE @[x]]]

startAutoSyncAnyInterval(p) ==
  IF p.syncInterval # 0 THEN p
  ELSE IF p.git = 0 THEN p
  ELSE LET t == NewTimer(p) IN
       [p EXCEPT !.syncInterval = t,
                 !.timers = [x \in DOMAIN @ \cup {t} |->
                               IF x = t THEN p.settings.commitInterval * 60 * 1000
                                        ELSE @[x]]]

startAutoSync(p) ==
  LET intervalMillis == p.settings.commitInterval * 60 * 1000 IN
  IF p.syncInterval # 0 THEN p
  ELSE IF p.git = 0 THEN p
  ELSE IF intervalMillis <= 0 THEN p
  ELSE LET t == NewTimer(p) IN
       [p EXCEPT !.syncInterval = t,
                 !.timers = [x \in DOMAIN @ \cup {t} |->
                               IF x = t THEN intervalMillis ELSE @[x]]]

stopAutoSync(p) ==
  IF p.syncInterval # 0
    THEN [p EXCEPT !.syncInterval = 0,
                   !.timers = [x \in DOMAIN @ \ {p.syncInterval} |-> @[x]]]
    ELSE p

\* The slot a new invocation is recorded in.
Slot(p) == CHOOSE r \in Free(p.run) : \A q \in Free(p.run) : r <= q

\* Line 791: a run is in progress.
BusyNever(p) == FALSE

Busy(p) == p.isSyncing

\* Lines 792-794: the invocation is rejected with the "already in progress"
\* notice.
RejectedReleasesFlag(p) == [p EXCEPT !.lastCall = "busy", !.isSyncing = FALSE]

Rejected(p) == [p EXCEPT !.lastCall = "busy"]

\* Line 802: the client is still null after initializeGit.
NeverNull(q) == FALSE

StillNull(q) == q.git = 0

\* Line 804: no repository URL is configured.
RepoUrlNeverEmpty(q) == FALSE

NoRepoUrl(q) == q.settings.repoUrl = ""

\* syncVault up to its first await (lines 790-816).  lastCall names the exit
\* taken, each of which shows its own Notice: "busy" (line 792), "noClient"
\* (line 797, the client still null after initializeGit), "noRepoUrl" (line
\* 806), "started"; the suffix "Reinit" marks an invocation that found the
\* client null (line 797) and got one from initializeGit.
syncVault(p) ==
  IF Busy(p) THEN Rejected(p)
  ELSE
    LET q == IF p.git = 0
               THEN initializeGit([p EXCEPT !.statusBar = "Error: Git not ready"])
               ELSE p
        reinit == IF p.git = 0 THEN "Reinit" ELSE ""
    IN
    IF StillNull(q) THEN [q EXCEPT !.lastCall = "noClient"]
    ELSE IF NoRepoUrl(q)
      THEN [q EXCEPT !.statusBar = "Error: Repo URL not set",
                     !.lastCall = "noRepoUrl" \o reinit]
    ELSE
      [q EXCEPT !.isSyncing = TRUE,
                !.statusBar = "Syncing...",
                !.lastCall = "started" \o reinit,
                !.run[Slot(q)] =
                   [IdleRun EXCEPT !.pc = "status1",
                                   !.ops = <<"status">>,
                                   !.bar = <<"Syncing...">>,
                                   !.lastSync0 = q.settings.lastSync,
                                   !.stash0 = stash,
                                   !.client = q.git]]

\* The invocation can be recorded and, where it re-initializes, a client made.
CanCall(p) ==
  \/ Busy(p)
  \/ /\ Free(p.run) # {}
     /\ (p.git = 0 => CanInitialize(p))


(***************************************************************************)
(* The protocol of syncVault after its first await (lines 816-1012).       *)
(***************************************************************************)
\* The top-level catch (lines 995-1008) followed by the finally block.
TopCatch(rr, error) ==
  LET warned ==
        IF /\ rr.stashed
           /\ ~(\/ Includes(error.message, P_ConflictApplying)
                \/ Includes(error.message, P_MergeConflictDuringRebase))
          THEN Notify(rr, "StashedRecoverManually")
          ELSE rr
      report == handleSyncError(error)
  IN Ended(Notify(Bar(warned, report.bar), report.notice), report.kind)

\* The catch of the stash push (lines 844-852).
StashCatchNoReturn(rr) ==
  Call(Bar(Notify(rr, "StashFailedAborted"), "Stash Error"), "fetch", "fetch",
       Ended(Bar(Notify(rr, "StashFailedAborted"), "Stash Error"), "stashAbort"))

StashCatch(rr) ==
  Ended(Bar(Notify(rr, "StashFailedAborted"), "Stash Error"), "stashAbort")

\* The catch of the stash pop (lines 923-945).
PopCatch(rr, stashPopError) ==
  IF Includes(stashPopError.message, P_conflict)
    THEN TopCatch(Bar(Notify(rr, "PopConflictStashAvailable"), "Stash Conflict!"),
                  E_StashConflict)
    ELSE TopCatch(Notify(rr, "PopErrorStashAvailable"), stashPopError)

CallFetch(rr) == Call(rr, "fetch", "fetch", TopCatch(rr, E_NullClient))

CallAdd(rr) == Call(rr, "add", "add", TopCatch(rr, E_NullClient))

\* Lines 918-949: restore the stash if this run made one, then stage.
AfterRebaseAlwaysPops(rr) ==
  Call(rr, "stashPop", "stashPop", PopCatch(rr, E_NullClient))

AfterRebase(rr) ==
  IF rr.stashed
    THEN Call(rr, "stashPop", "stashPop", PopCatch(rr, E_NullClient))
    ELSE CallAdd(rr)

\* The finally block (lines 1009-1012) and line 850: the value isSyncing gets.
FinallySkipped(flag) == flag

Finally(flag) == FALSE

\* `git stash pop` (line 921) removes the top entry of the stash stack.
PopKeeps(st) == st

Pop(st) == SubSeq(st, 1, Len(st) - 1)

\* A stash entry is "live" while the run that pushed it is in the protocol;
\* when that run ends with the entry still on the stack the entry is marked
\* with what the run's failure asks of the user (section 7 of the design).
LeftBy(outcome) == IF outcome \in {"remote", "generic"} THEN "transient" ELSE "manual"

Settle(st, rr) ==
  IF rr.pc = "done"
    THEN [i \in 1..Len(st) |-> IF st[i] = "live" THEN LeftBy(rr.outcome) ELSE st[i]]
    ELSE st

\* The run record, the flag, the status bar and the stash after a segment.
Step(r, rr, st) ==
  /\ run' = [run EXCEPT ![r] = rr]
  /\ isSyncing' = IF rr.pc = "done" THEN Finally(isSyncing) ELSE isSyncing
  /\ statusBar' = IF Len(rr.bar) > Len(run[r].bar)
                    THEN rr.bar[Len(rr.bar)]
                    ELSE statusBar
  /\ stash' = Settle(st, rr)

\* Lines 969-970, 980-981, 985-986: lastSync is set and saveSettings called;
\* the data is on disk when saveData resolves.
SaveWithoutLastSync(r, rr, pc) ==
  \E t \in Times :
    /\ settings' = settings
    /\ saved' = saved
    /\ Step(r, [rr EXCEPT !.pc = pc, !.time = t], stash)

SaveLastSync(r, rr, pc) ==
  \E t \in Times :
    /\ settings' = [settings EXCEPT !.lastSync = Format(t)]
    /\ saved' = saved
    /\ Step(r, [rr EXCEPT !.pc = pc, !.time = t], stash)

\* A simple-git client runs its tasks in series: the version check that
\* initializeGit queued on the client (line 716) has settled before a later
\* operation on that client returns.
Settled(r) == run[r].client \notin versionPending

Rest == <<phase, isLocal, git, versionPending, syncInterval, timers,
          lastCall, handlers>>

InitialStatusReturns(r) ==
  /\ run[r].pc = "status1"
  /\ Settled(r)
  /\ \/ \E e \in GitErrors :
          Step(r, TopCatch(Returned(run[r], "fail"), e), stash)
     \/ \E files \in SUBSET FileStates :
          LET rr == [Returned(run[r], "ok") EXCEPT
                       !.hasLocal = IF hasLocalChanges(files) THEN "yes" ELSE "no"]
          IN IF hasLocalChanges(files)
               THEN Step(r, Call(rr, "stashPush", "stashPush", StashCatch(rr)), stash)
               ELSE Step(r, CallFetch(rr), stash)
  /\ UNCHANGED <<Rest, settings, saved>>

StashPushReturns(r) ==
  /\ run[r].pc = "stashPush"
  /\ Settled(r)
  /\ \/ \E e \in GitErrors :
          Step(r, StashCatch(Returned(run[r], "fail")), stash)
     \/ \E out \in StashPushOutputs :
          /\ out.created => Len(stash) < MaxStash
          /\ LET rr == [Returned(run[r], "ok") EXCEPT
                          !.stashed = StashedBy(out.text),
                          !.created = out.created]
             IN Step(r, CallFetch(rr),
                     IF out.created THEN Append(stash, "live") ELSE stash)
  /\ UNCHANGED <<Rest, settings, saved>>

\* The rejection of the fetch (line 856) or of the push (line 967) is not
\* caught where it is raised: it goes to the top-level catch.
RemoteFailureRetried(rr, error) == Invoked(rr, rr.ops[Len(rr.ops)], rr.pc)

RemoteFailure(rr, error) == TopCatch(rr, error)

FetchReturns(r) ==
  /\ run[r].pc = "fetch"
  /\ Settled(r)
  /\ \/ \E e \in GitErrors :
          Step(r, RemoteFailure(Returned(run[r], "fail"), e), stash)
     \/ LET rr == Returned(run[r], "ok")
        IN Step(r, Call(rr, "status", "status2", TopCatch(rr, E_NullClient)), stash)
  /\ UNCHANGED <<Rest, settings, saved>>

\* Line 878: the branch is behind the branch it tracks.
NeedsRebaseIgnoresTracking(tracking, behind) == behind > 0

NeedsRebase(tracking, behind) == tracking /\ behind > 0

StatusAfterFetchReturns(r) ==
  /\ run[r].pc = "status2"
  /\ Settled(r)
  /\ \/ \E e \in GitErrors :
          Step(r, TopCatch(Returned(run[r], "fail"), e), stash)
     \/ \E current, tracking \in BOOLEAN, behind \in Behinds, ahead \in Aheads :
          LET r1 == [Returned(run[r], "ok") EXCEPT
                       !.snap = [seen |-> TRUE, current |-> current,
                                 tracking |-> tracking, behind |-> behind]]
              r2 == IF ~tracking /\ behind > 0
                      THEN Notify(r1, "BehindNoTracking") ELSE r1
              r3 == IF ahead > 0 /\ ~tracking
                      THEN Notify(r2, "AheadNoTracking") ELSE r2
          IN IF ~current
               THEN Step(r, TopCatch(Notify(r1, "NotOnBranch"), E_NotOnBranch), stash)
             ELSE IF NeedsRebase(tracking, behind)
               THEN Step(r, Call(r2, "rebase", "rebase",
                                 TopCatch(Notify(r2, "RebaseFailed"), E_NullClient)),
                         stash)
             ELSE Step(r, AfterRebase(r3), stash)
  /\ UNCHANGED <<Rest, settings, saved>>

\* Line 886: the rebase failure is a conflict.
NeverRebaseConflict(rebaseError) == FALSE

IsRebaseConflict(rebaseError) == Includes(rebaseError.message, P_CONFLICT)

RebaseReturns(r) ==
  /\ run[r].pc = "rebase"
  /\ Settled(r)
  /\ \/ \E rebaseError \in GitErrors :
          LET rr == [Returned(run[r], "fail") EXCEPT
                       !.rebaseError = rebaseError.message]
              r1 == Notify(rr, "RebaseConflict")
          IN IF IsRebaseConflict(rebaseError)
               THEN Step(r, Call(r1, "rebaseAbort", "rebaseAbort",
                                 TopCatch(Notify(r1, "AbortFailedCritical"),
                                          E_RebaseAborted)),
                         stash)
               ELSE Step(r, TopCatch(Notify(rr, "RebaseFailed"), rebaseError), stash)
     \/ Step(r, AfterRebase(Returned(run[r], "ok")), stash)
  /\ UNCHANGED <<Rest, settings, saved>>

RebaseAbortReturns(r) ==
  /\ run[r].pc = "rebaseAbort"
  /\ Settled(r)
  /\ \/ Step(r, TopCatch(Notify(Returned(run[r], "ok"), "RebaseAborted"),
                         E_RebaseAborted), stash)
     \/ Step(r, TopCatch(Notify(Returned(run[r], "fail"), "AbortFailedCritical"),
                         E_RebaseAborted), stash)
  /\ UNCHANGED <<Rest, settings, saved>>

StashPopReturns(r) ==
  /\ run[r].pc = "stashPop"
  /\ Settled(r)
  /\ \/ \E e \in GitErrors :
          Step(r, PopCatch(Returned(run[r], "fail"), e), stash)
     \/ /\ stash # <<>>
        /\ Step(r, CallAdd([Returned(run[r], "ok") EXCEPT !.popped = TRUE]),
                Pop(stash))
  /\ UNCHANGED <<Rest, settings, saved>>

AddReturns(r) ==
  /\ run[r].pc = "add"
  /\ Settled(r)
  /\ \/ \E e \in GitErrors :
          Step(r, TopCatch(Returned(run[r], "fail"), e), stash)
     \/ LET rr == Returned(run[r], "ok")
        IN Step(r, Call(rr, "status", "status3", TopCatch(rr, E_NullClient)), stash)
  /\ UNCHANGED <<Rest, settings, saved>>

FinalStatusReturns(r) ==
  /\ run[r].pc = "status3"
  /\ Settled(r)
  /\ \/ /\ \E e \in GitErrors :
             Step(r, TopCatch(Returned(run[r], "fail"), e), stash)
        /\ UNCHANGED <<settings, saved>>
     \/ \E files \in SUBSET FileStates, tracking \in BOOLEAN :
          LET rr == [Returned(run[r], "ok") EXCEPT
                       !.tracking = tracking,
                       !.staged = Cardinality(filesToCommit(files))]
          IN IF Cardinality(filesToCommit(files)) > 0
               THEN /\ Step(r, Call(rr, "commit", "commit",
                                    TopCatch(rr, E_NullClient)), stash)
                    /\ UNCHANGED <<settings, saved>>
               ELSE SaveLastSync(r, rr, "saveUpToDate")
  /\ UNCHANGED Rest

\* Line 966: the snapshot taken after staging names a tracking branch.
AlwaysTracking(rr) == TRUE

HasTracking(rr) == rr.tracking

CommitReturns(r) ==
  /\ run[r].pc = "commit"
  /\ Settled(r)
  /\ \/ /\ \E e \in GitErrors :
             Step(r, TopCatch(Returned(run[r], "fail"), e), stash)
        /\ UNCHANGED <<settings, saved>>
     \/ LET rr == Returned(run[r], "ok")
        IN IF HasTracking(rr)
             THEN /\ Step(r, Call(rr, "push", "push", TopCatch(rr, E_NullClient)),
                          stash)
                  /\ UNCHANGED <<settings, saved>>
             ELSE SaveLastSync(r, Notify(rr, "CommittedNotPushed"), "saveCommitted")
  /\ UNCHANGED Rest

PushReturns(r) ==
  /\ run[r].pc = "push"
  /\ Settled(r)
  /\ \/ /\ \E e \in GitErrors :
             Step(r, RemoteFailure(Returned(run[r], "fail"), e), stash)
        /\ UNCHANGED <<settings, saved>>
     \/ SaveLastSync(r, Returned(run[r], "ok"), "saveSynced")
  /\ UNCHANGED Rest

\* saveSettings has settled (lines 971-972, 982, 987-993): saveData wrote the
\* settings, or it rejected and the rejection reaches the top-level catch.
SaveReturns(r) ==
  /\ run[r].pc \in {"saveSynced", "saveCommitted", "saveUpToDate"}
  /\ \/ /\ Step(r, TopCatch([run[r] EXCEPT !.save = "fail"], E_Generic), stash)
        /\ saved' = saved
     \/ /\ saved' = settings
        /\ LET rr == [run[r] EXCEPT !.save = "ok"]
           IN CASE rr.pc = "saveSynced" ->
                     Step(r, Ended(Notify(Bar(rr, "Synced"), "Synced"), "synced"),
                          stash)
                [] rr.pc = "saveCommitted" ->
                     Step(r, Ended(Bar(rr, "Committed (not pushed)"), "committed"),
                          stash)
                [] rr.pc = "saveUpToDate" ->
                     Step(r, Ended(Notify(Bar(rr, "Up-to-date"), "UpToDate"),
                                   "uptodate"), stash)
  /\ UNCHANGED <<Rest, settings>>


(***************************************************************************)
(* Lifecycle, triggers and the environment.                                *)
(***************************************************************************)
NoTimers == [x \in {} |-> 0]

Constructed(intervals) ==
  /\ phase = "new"
  /\ isLocal \in BOOLEAN
  /\ git = 0
  /\ versionPending = {}
  /\ isSyncing = FALSE
  /\ settings = DEFAULT_SETTINGS
  /\ saved \in LoadedData(intervals)
  /\ syncInterval = 0
  /\ timers = NoTimers
  /\ statusBar = ""
  /\ lastCall = "none"
  /\ stash = <<>>
  /\ handlers = {}
  /\ run = [r \in Runs |-> IdleRun]

\* The plugin object as constructed, with the default interval on disk.
Init == Constructed({15})

\* onload (lines 650-698); loadSettings is its only await.
Onload ==
  /\ phase = "new"
  /\ phase' = "loaded"
  /\ LET p0 == [Plugin EXCEPT !.settings = saved, !.statusBar = "Idle"]
         p1 == initializeGit(p0)
         p2 == IF p1.settings.autoSync /\ p1.git # 0 THEN startAutoSync(p1) ELSE p1
         p3 == IF p2.settings.autoSync /\ p2.settings.repoUrl # ""
                 THEN syncVault(p2) ELSE p2
     IN Becomes(p3)
  /\ UNCHANGED <<isLocal, stash, handlers>>

\* onunload (lines 700-703).
Onunload ==
  /\ phase = "loaded"
  /\ phase' = "unloaded"
  /\ Becomes(stopAutoSync(Plugin))
  /\ UNCHANGED <<isLocal, stash, handlers>>

\* The callback of window.setInterval (lines 1092-1095).
TimerTick ==
  /\ \E t \in DOMAIN timers : TRUE
  /\ CanCall(Plugin)
  /\ Becomes(syncVault(Plugin))
  /\ UNCHANGED <<phase, isLocal, stash, handlers>>

\* The git-sync-now command (lines 665-678) and the Sync Now button
\* (lines 1224-1241).
SyncNow ==
  /\ phase = "loaded"
  /\ CanCall(Plugin)
  /\ IF git # 0
       THEN Becomes(syncVault(Plugin))
       ELSE Becomes([Plugin EXCEPT !.statusBar = "Error: Git not init"])
  /\ UNCHANGED <<phase, isLocal, stash, handlers>>

\* handleFileActivity (lines 1015-1022).
FileActivityAlwaysShows ==
  /\ phase = "loaded"
  /\ statusBar' = "Changes detected"
  /\ UNCHANGED <<phase, isLocal, git, versionPending, isSyncing, settings,
                 saved, syncInterval, timers, lastCall, stash, handlers, run>>

FileActivity ==
  /\ phase = "loaded"
  /\ statusBar' = IF ~isSyncing THEN "Changes detected" ELSE statusBar
  /\ UNCHANGED <<phase, isLocal, git, versionPending, isSyncing, settings,
                 saved, syncInterval, timers, lastCall, stash, handlers, run>>

\* The version check of initializeGit settles (lines 715-732).
VersionResolves ==
  /\ \E c \in versionPending : versionPending' = versionPending \ {c}
  /\ UNCHANGED <<phase, isLocal, git, isSyncing, settings, saved,
                 syncInterval, timers, statusBar, lastCall, stash, handlers, run>>

VersionRejects ==
  /\ \E c \in versionPending : versionPending' = versionPending \ {c}
  /\ git' = 0
  /\ statusBar' = "Error: Git init failed"
  /\ UNCHANGED <<phase, isLocal, isSyncing, settings, saved, syncInterval,
                 timers, lastCall, stash, handlers, run>>

(***************************************************************************)
(* The settings tab (lines 1122-1273).  A handler changes the setting,     *)
(* awaits saveSettings and then acts on the scheduler or the client.       *)
(* These handlers are not steps of Spec, which holds the settings fixed.   *)
(***************************************************************************)
\* Number(value) for the texts a user can type: NaN or a number.
Num(v) == [nan |-> FALSE, value |-> v]
NaN == [nan |-> TRUE, value |-> 0]

Number(text) ==
  CASE text = "30" -> Num(30)
    [] text = "0" -> Num(0)
    [] text = "" -> Num(0)
    [] text = "-5" -> Num(0 - 5)
    [] OTHER -> NaN

isNaN(n) == n.nan

IntervalTexts == {"30", "0", "-5", "abc", ""}

\* parseInt(value) for the texts a user can type: the leading integer of the
\* text, NaN when there is none.
parseInt(text) ==
  CASE text = "100" -> Num(100)
    [] text = "12abc" -> Num(12)
    [] text = "0" -> Num(0)
    [] text = "-5" -> Num(0 - 5)
    [] OTHER -> NaN

LogMaxTexts == {"100", "12abc", "0", "-5", "abc", ""}

\* Lines 1157-1161: the interval stored for a text.
IntervalValueUnchecked(text) == Number(text).value

IntervalValue(text) ==
  LET numValue == Number(text)
  IN IF isNaN(numValue) \/ numValue.value < 1 THEN 1 ELSE numValue.value

\* Lines 1262-1268: the number of log entries stored for a text.
LogMaxValue(text) ==
  LET numValue == parseInt(text)
  IN IF isNaN(numValue) \/ numValue.value <= 0
       THEN DEFAULT_SETTINGS.logMaxEntries
       ELSE numValue.value

Suspend(h) ==
  /\ Cardinality(handlers) < MaxHandlers
  /\ handlers' = handlers \cup {h}

\* saveData has written the settings (line 750).
Written == [Plugin EXCEPT !.saved = settings]

\* Enable Auto Sync toggled (lines 1134-1136).
AutoSyncToggled ==
  /\ phase = "loaded"
  /\ \E value \in BOOLEAN :
       /\ settings' = [settings EXCEPT !.autoSync = value]
       /\ Suspend([kind |-> "autoSync", value |-> value])
  /\ saved' = saved
  /\ UNCHANGED <<phase, isLocal, git, versionPending, isSyncing,
                 syncInterval, timers, statusBar, lastCall, stash, run>>

\* Lines 1137-1142.
AutoSyncSaved ==
  /\ \E h \in handlers :
       /\ h.kind = "autoSync"
       /\ handlers' = handlers \ {h}
       /\ IF h.value /\ git # 0
            THEN Becomes(startAutoSync(Written))
            ELSE Becomes(stopAutoSync(Written))
  /\ UNCHANGED <<phase, isLocal, stash>>

\* Sync Interval edited (lines 1156-1163); the field is shown while autoSync
\* is on.
IntervalEdited ==
  /\ phase = "loaded"
  /\ settings.autoSync
  /\ \E text \in IntervalTexts :
       settings' = [settings EXCEPT !.commitInterval = IntervalValue(text)]
  /\ Suspend([kind |-> "interval", value |-> TRUE])
  /\ saved' = saved
  /\ UNCHANGED <<phase, isLocal, git, versionPending, isSyncing,
                 syncInterval, timers, statusBar, lastCall, stash, run>>

\* Lines 1164-1167.
IntervalSaved ==
  /\ \E h \in handlers :
       /\ h.kind = "interval"
       /\ handlers' = handlers \ {h}
  /\ IF settings.autoSync
       THEN Becomes(startAutoSync(stopAutoSync(Written)))
       ELSE Becomes(Written)
  /\ UNCHANGED <<phase, isLocal, stash>>

RepoUrlTexts == {"", "git@host:vault.git"}

\* Repository URL edited (lines 1182-1184).
RepoUrlEdited ==
  /\ phase = "loaded"
  /\ \E value \in RepoUrlTexts : settings' = [settings EXCEPT !.repoUrl = value]
  /\ Suspend([kind |-> "repoUrl", value |-> TRUE])
  /\ saved' = saved
  /\ UNCHANGED <<phase, isLocal, git, versionPending, isSyncing,
                 syncInterval, timers, statusBar, lastCall, stash, run>>

\* Line 1185.
RepoUrlSaved ==
  /\ \E h \in handlers :
       /\ h.kind = "repoUrl"
       /\ handlers' = handlers \ {h}
  /\ CanInitialize(Plugin)
  /\ Becomes(initializeGit(Written))
  /\ UNCHANGED <<phase, isLocal, stash>>

\* Max Log Entries edited (lines 1261-1269).
LogMaxEdited ==
  /\ phase = "loaded"
  /\ \E text \in LogMaxTexts :
       settings' = [settings EXCEPT !.logMaxEntries = LogMaxValue(text)]
  /\ Suspend([kind |-> "logMax", value |-> TRUE])
  /\ saved' = saved
  /\ UNCHANGED <<phase, isLocal, git, versionPending, isSyncing,
                 syncInterval, timers, statusBar, lastCall, stash, run>>

\* Line 1270: the save has resolved and the handler returns.
LogMaxSaved ==
  /\ \E h \in handlers :
       /\ h.kind = "logMax"
       /\ handlers' = handlers \ {h}
  /\ Becomes(Written)
  /\ UNCHANGED <<phase, isLocal, stash>>

\* A step of one suspended invocation of syncVault.
RunStep(r) ==
  \/ InitialStatusReturns(r)
  \/ StashPushReturns(r)
  \/ FetchReturns(r)
  \/ StatusAfterFetchReturns(r)
  \/ RebaseReturns(r)
  \/ RebaseAbortReturns(r)
  \/ StashPopReturns(r)
  \/ AddReturns(r)
  \/ FinalStatusReturns(r)
  \/ CommitReturns(r)
  \/ PushReturns(r)
  \/ SaveReturns(r)

(***************************************************************************)
(* Spec: the synchronization engine under its triggers (the on-load sync,  *)
(* timer ticks, the manual command) and the client's version check.        *)
(***************************************************************************)
Next ==
  \/ Onload
  \/ TimerTick
  \/ SyncNow
  \/ VersionResolves
  \/ VersionRejects
  \/ \E r \in Runs : RunStep(r)

Spec == Init /\ [][Next]_vars


(***************************************************************************)
(* FairSpec: every operation of the git client and every save of the       *)
(* settings eventually returns or fails, so a suspended invocation is      *)
(* eventually resumed.                                                     *)
(***************************************************************************)
FairSpec ==
  /\ Spec
  /\ \A r \in Runs : WF_vars(RunStep(r))
  /\ WF_vars(VersionResolves \/ VersionRejects)

(***************************************************************************)
(* ActivitySpec: the engine of Spec with the vault's file notifications.   *)
(***************************************************************************)
ActivityNext == Next \/ FileActivity

ActivitySpec == Init /\ [][ActivityNext]_vars

(***************************************************************************)
(* SchedSpec: the scheduler and the settings tab.  The plugin is loaded    *)
(* with settings from disk, which onload does not validate, the user edits *)
(* the settings and runs the sync command, and the timer ticks.  The git   *)
(* operations of a run that a trigger starts stay pending here: the steps  *)
(* of a run are those of Spec and touch neither the scheduler nor the      *)
(* client.                                                                 *)
(***************************************************************************)
SchedInit == Constructed({15, 0, 0 - 5})

SchedNext ==
  \/ Onload
  \/ Onunload
  \/ TimerTick
  \/ SyncNow
  \/ VersionResolves
  \/ VersionRejects
  \/ AutoSyncToggled
  \/ AutoSyncSaved
  \/ IntervalEdited
  \/ IntervalSaved
  \/ RepoUrlEdited
  \/ RepoUrlSaved

SchedSpec == SchedInit /\ [][SchedNext]_vars

(***************************************************************************)
(* FieldsSpec: the numeric fields of the settings tab (the interval field  *)
(* is shown while auto-sync is on), with the settings loaded from disk.    *)
(***************************************************************************)
FieldsNext ==
  \/ Onload
  \/ VersionResolves
  \/ VersionRejects
  \/ AutoSyncToggled
  \/ AutoSyncSaved
  \/ IntervalEdited
  \/ IntervalSaved
  \/ LogMaxEdited
  \/ LogMaxSaved

FieldsSpec == SchedInit /\ [][FieldsNext]_vars

(***************************************************************************)
(* ReportSpec: the classification of failures.  A run's first operation is *)
(* rejected with a failure whose message holds one or two of the texts     *)
(* handleSyncError looks for, with or without a failed response carrying   *)
(* "conflict" in error.git; the run records the failure it was given.      *)
(***************************************************************************)
Fragments ==
  { P_CONFLICT, P_conflict, P_HostKey, P_PermissionDenied, P_NotARepo,
    P_NoRemote, P_RebaseOperationAborted, P_ConflictApplying, <<"fatal">> }

Failures ==
  { Err(a \o b, g) : a \in Fragments, b \in Fragments \cup {<<>>}, g \in BOOLEAN }

\* The rejection of the first status (line 816) reaches the top-level catch.
InitialStatusRejected(r) ==
  /\ run[r].pc = "status1"
  /\ Settled(r)
  /\ \E error \in Failures :
       Step(r, TopCatch([Returned(run[r], "fail") EXCEPT !.failure = error],
                        error), stash)
  /\ UNCHANGED <<Rest, settings, saved>>

ReportNext ==
  \/ Onload
  \/ SyncNow
  \/ VersionResolves
  \/ \E r \in Runs : InitialStatusRejected(r)

ReportSpec == Init /\ [][ReportNext]_vars

(***************************************************************************)
(* ClientSpec: the first steps of a run (the initial status, the stash     *)
(* push and the fetch, after which the run stays suspended) while the      *)
(* version check of a client settles and the user edits the repository     *)
(* URL, whose handler replaces the client after its save.                  *)
(***************************************************************************)
ClientNext ==
  \/ Onload
  \/ SyncNow
  \/ VersionResolves
  \/ VersionRejects
  \/ RepoUrlEdited
  \/ RepoUrlSaved
  \/ \E r \in Runs :
       InitialStatusReturns(r) \/ StashPushReturns(r) \/ FetchReturns(r)

ClientSpec == Init /\ [][ClientNext]_vars

(***************************************************************************)
(* Properties.                                                             *)
(***************************************************************************)
Success == {"synced", "committed", "uptodate"}

StashNotices ==
  {"StashedRecoverManually", "PopConflictStashAvailable", "PopErrorStashAvailable",
   "ErrStashConflict"}

Range(f) == { f[i] : i \in DOMAIN f }

Count(s, x) == Cardinality({ i \in DOMAIN s : s[i] = x })

\* A trigger other than onload invokes syncVault.
Triggered == TimerTick \/ (SyncNow /\ git # 0)

\* C1: at most one invocation of syncVault is inside the protocol at any
\* time, and an invocation that finds isSyncing true issues no operation:
\* it leaves every invocation's record of operations as it was.
C1_SingleFlight ==
  /\ [](Cardinality(InProtocol(run)) <= 1)
  /\ [][(isSyncing /\ Triggered) => run' = run]_vars

C1_Witness == isSyncing /\ lastCall = "busy" /\ InProtocol(run) # {}

\* C2: isSyncing is true exactly while one invocation is between line 810
\* and its exit: it is false before a run, and false again after the run on
\* every exit path.
C2_FlagTracksRun == isSyncing <=> (InProtocol(run) # {})

C2_Witness ==
  \E r \in Runs :
    /\ run[r].pc = "done"
    /\ run[r].outcome = "generic"
    /\ run[r].res[Len(run[r].res)] = "fail"
    /\ ~isSyncing

\* C3 (as claimed): a run that stashed either popped the stash or showed a
\* notice saying the stash is still there.
C3_StashNeverSilent ==
  \A r \in Runs :
    (run[r].pc = "done" /\ run[r].stashed) =>
      \/ run[r].popped
      \/ Range(run[r].notices) \cap StashNotices # {}

\* C4 (as claimed): after a run that ends with a success outcome, no stash
\* left by an earlier run that failed with a remote or generic error is
\* outstanding.
C4_SelfHealing ==
  \A r \in Runs :
    (run[r].pc = "done" /\ run[r].outcome \in Success) =>
      "transient" \notin Range(stash)

\* C4 (amended): a run that ends with a success outcome leaves the stash
\* stack exactly as it found it: it restores the stash it pushed itself and
\* no stash left by an earlier run.
C4_SuccessKeepsEarlierStashes ==
  \A r \in Runs :
    (run[r].pc = "done" /\ run[r].outcome \in Success) =>
      stash = run[r].stash0

C4_Witness ==
  \E r \in Runs :
    /\ run[r].pc = "done"
    /\ run[r].outcome \in Success
    /\ run[r].popped
    /\ "transient" \in Range(run[r].stash0)

\* C5: whenever a run has started, a state follows in which no run is in
\* the protocol and isSyncing is false, whatever step fails.
C5_RunsTerminate ==
  (isSyncing \/ InProtocol(run) # {}) ~> (~isSyncing /\ InProtocol(run) = {})

\* A run has started, and ended, after an earlier run failed with its stash
\* left behind.
C5_Witness ==
  \E r \in Runs :
    /\ run[r].pc = "done"
    /\ run[r].stash0 # <<>>
    /\ ~isSyncing

\* C6: an invocation of syncVault while a run is in progress changes
\* nothing but the notice shown.
C6_RejectedChangesNothing ==
  [][(isSyncing /\ Triggered) =>
       /\ lastCall' = "busy"
       /\ UNCHANGED <<phase, isLocal, git, versionPending, isSyncing, settings,
                      saved, syncInterval, timers, statusBar, stash, handlers,
                      run>>]_vars

C6_Witness ==
  /\ lastCall = "busy"
  /\ isSyncing
  /\ \E r \in Runs : run[r].pc = "stashPop" /\ run[r].stashed

\* C7 (as claimed): no invocation that found the client null went on to
\* start the protocol.
C7_NullClientExits == lastCall # "startedReinit"

\* syncVault is invoked while the client is null and no run is in progress:
\* by a timer tick, or by onload when the vault is not on a local filesystem.
InvokedWithoutClient ==
  \/ TimerTick /\ git = 0 /\ ~isSyncing
  \/ Onload /\ ~isLocal /\ saved.autoSync /\ saved.repoUrl # ""

\* C7 (amended): an invocation that finds the client null re-initializes it;
\* if the client is still null the invocation reports the error and exits
\* with no operation issued and isSyncing false, otherwise it goes on with
\* the new client.
C7_ExitsWhenStillNull ==
  [][InvokedWithoutClient =>
       IF isLocal
         THEN git' # 0 /\ lastCall' \in {"startedReinit", "noRepoUrlReinit"}
         ELSE /\ lastCall' = "noClient"
              /\ git' = 0
              /\ ~isSyncing'
              /\ run' = run]_vars

C7_Witness == lastCall = "noClient" /\ phase = "loaded" /\ ~isSyncing

\* C8: a run whose initial snapshot shows no local changes invokes neither
\* stash push nor stash pop, and its stashed flag is never set.
C8_NoChangesNoStash ==
  \A r \in Runs :
    run[r].hasLocal = "no" =>
      /\ "stashPush" \notin Range(run[r].ops)
      /\ "stashPop" \notin Range(run[r].ops)
      /\ ~run[r].stashed

C8_Witness ==
  \E r \in Runs :
    /\ run[r].hasLocal = "no"
    /\ run[r].pc = "done"
    /\ run[r].outcome = "synced"

\* The stash push of run r returned without having saved anything.
NothingSaved(r) ==
  /\ run[r].hasLocal = "yes"
  /\ Len(run[r].res) >= 2
  /\ run[r].res[2] = "ok"
  /\ ~run[r].created

\* C9: when the stash push saved nothing, stashed is false for the rest of
\* the run, no stash pop is invoked, and the run goes on to the fetch: the
\* stash handler does not end it and the next operation is the fetch.
C9_NothingSavedContinues ==
  \A r \in Runs :
    NothingSaved(r) =>
      /\ ~run[r].stashed
      /\ "stashPop" \notin Range(run[r].ops)
      /\ run[r].outcome # "stashAbort"
      /\ "StashFailedAborted" \notin Range(run[r].notices)
      /\ (Len(run[r].ops) >= 3 => run[r].ops[3] = "fetch")

C9_Witness ==
  \E r \in Runs :
    /\ NothingSaved(r)
    /\ run[r].pc = "done"
    /\ run[r].outcome = "synced"

\* The stash push of run r failed.
StashPushFailed(r) ==
  /\ Len(run[r].res) >= 2
  /\ run[r].ops[2] = "stashPush"
  /\ run[r].res[2] = "fail"

\* C10: when the stash push fails the run ends at once: no later operation
\* is invoked, stashed is false, isSyncing is released, lastSync is
\* unchanged and the user is told the sync was aborted.
C10_StashFailureAborts ==
  \A r \in Runs :
    StashPushFailed(r) =>
      /\ run[r].pc = "done"
      /\ run[r].ops = <<"status", "stashPush">>
      /\ ~run[r].stashed
      /\ ~isSyncing
      /\ settings.lastSync = run[r].lastSync0
      /\ run[r].outcome = "stashAbort"
      /\ "StashFailedAborted" \in Range(run[r].notices)

C10_Witness ==
  \E r \in Runs : StashPushFailed(r) /\ run[r].pc = "done" /\ stash # <<>>

CommitSucceeded(r) ==
  \E i \in DOMAIN run[r].res : run[r].ops[i] = "commit" /\ run[r].res[i] = "ok"

\* The push of run r succeeded.
PushSucceeded(r) ==
  \E i \in DOMAIN run[r].res : run[r].ops[i] = "push" /\ run[r].res[i] = "ok"

C14_StartRefuses ==
  /\ []((git = 0 \/ settings.commitInterval <= 0) =>
          startAutoSync(Plugin) = Plugin)
  /\ [][((Onload \/ AutoSyncSaved \/ IntervalSaved)
          /\ (git' = 0 \/ settings'.commitInterval <= 0)) =>
            \/ syncInterval' = 0 /\ timers' = NoTimers
            \/ UNCHANGED <<syncInterval, timers>>]_vars

\* onload called startAutoSync with an interval from disk that is not
\* positive.
C14_Witness ==
  /\ phase = "loaded"
  /\ settings.autoSync
  /\ git # 0
  /\ settings.commitInterval <= 0
  /\ syncInterval = 0
  /\ timers = NoTimers

\* The handler of the auto-sync toggle that resumes in this step was started
\* with this value.
ToggleResumes(value) ==
  /\ AutoSyncSaved
  /\ \E h \in handlers :
       h.kind = "autoSync" /\ h.value = value /\ handlers' = handlers \ {h}

\* C15: startAutoSync called while a timer is installed leaves the timer and
\* its period as they are, also when the configured interval has changed
\* since; stopAutoSync called while no timer is installed changes nothing.
C15_StartStopIdempotent ==
  /\ [](syncInterval # 0 => startAutoSync(Plugin) = Plugin)
  /\ [](syncInterval = 0 => stopAutoSync(Plugin) = Plugin)
  /\ [](\A p \in {startAutoSync(Plugin), stopAutoSync(Plugin)} :
           startAutoSync(startAutoSync(p)) = startAutoSync(p)
           /\ stopAutoSync(stopAutoSync(p)) = stopAutoSync(p))
  /\ [][(ToggleResumes(TRUE) /\ git # 0 /\ syncInterval # 0) =>
          UNCHANGED <<syncInterval, timers>>]_vars
  /\ [][(ToggleResumes(FALSE) /\ syncInterval = 0) =>
          UNCHANGED <<syncInterval, timers>>]_vars

\* A timer is installed whose period is not the configured interval any
\* more: the interval was edited and its handler is still suspended on the
\* save.
C15_Witness ==
  /\ syncInterval # 0
  /\ timers[syncInterval] # settings.commitInterval * 60 * 1000
  /\ settings.autoSync
  /\ git # 0
  /\ handlers = {[kind |-> "interval", value |-> TRUE]}
  /\ settings = saved

\* Notices that warn about the branch's upstream and describe no failure.
Warnings == {"BehindNoTracking", "AheadNoTracking", "CommittedNotPushed"}

IsFailureNotice(n) == n \notin Warnings

\* C16 (as claimed): a run that has ended updated the status bar exactly
\* once after "Syncing...", and a run that failed showed exactly one notice
\* describing the failure.
C16_OneReportPerOutcome ==
  \A r \in Runs :
    run[r].pc = "done" =>
      /\ Len(run[r].bar) = 2
      /\ run[r].outcome \notin Success =>
            Len(SelectSeq(run[r].notices, IsFailureNotice)) = 1

\* C17: a file notification starts no run and invokes no operation: it
\* leaves isSyncing, the runs, the stash, the settings (lastSync) and the
\* timer as they are, and it sets the status bar to "Changes detected" when
\* no run is in progress and leaves it alone otherwise.
C17_FileActivityAdvisory ==
  [][FileActivity =>
       /\ UNCHANGED <<phase, isLocal, git, versionPending, isSyncing, settings,
                      saved, syncInterval, timers, lastCall, stash, handlers,
                      run>>
       /\ statusBar' = IF isSyncing THEN statusBar ELSE "Changes detected"]_vars

C17_Witness ==
  /\ statusBar = "Changes detected"
  /\ ~isSyncing
  /\ stash # <<>>
  /\ syncInterval # 0
  /\ settings.lastSync # Never

\* C18: a timer tick or sync command that finds repoUrl empty, no run in
\* progress and a client reports the configuration error and exits with nothing but the
\* status bar changed: no run is recorded, isSyncing stays false and the
\* settings (lastSync) are as they were.  The in-progress test comes first
\* (a tick during a run is rejected as busy whatever the URL) and the client
\* test second (with the client null the tick re-initializes it before it
\* looks at the URL).
C18_NoRepoUrlExits ==
  [][(Triggered /\ settings.repoUrl = "") =>
       IF isSyncing
         THEN lastCall' = "busy" /\ UNCHANGED <<statusBar, git, run>>
       ELSE IF git = 0
         THEN /\ lastCall' = (IF isLocal THEN "noRepoUrlReinit" ELSE "noClient")
              /\ isLocal <=> git' # 0
              /\ ~isSyncing' /\ run' = run /\ settings' = settings
         ELSE /\ lastCall' = "noRepoUrl"
              /\ statusBar' = "Error: Repo URL not set"
              /\ UNCHANGED <<phase, isLocal, git, versionPending, isSyncing,
                             settings, saved, syncInterval, timers, stash,
                             handlers, run>>]_vars

C18_Witness ==
  /\ lastCall = "noRepoUrl"
  /\ statusBar = "Error: Repo URL not set"
  /\ settings.repoUrl = ""
  /\ git # 0
  /\ ~isSyncing
  /\ syncInterval # 0

\* A tick was rejected as busy while repoUrl was empty.
C18_BusyFirst ==
  lastCall = "busy" /\ settings.repoUrl = "" /\ isSyncing

\* C19 (as claimed): once auto-sync has been switched off and the handlers
\* of the settings tab have completed, no timer is installed.
C19_NoTimerWhenOff ==
  (handlers = {} /\ phase = "loaded" /\ ~settings.autoSync) =>
    (syncInterval = 0 /\ timers = NoTimers)

\* The part of C19 that holds, step by step: when the handler of an interval
\* edit resumes with auto-sync on and a client, it ends with exactly one
\* timer installed, whose period is the configured interval; when the
\* handler of a toggle to off resumes, it ends with no timer installed.
C19_RestartOnChange ==
  /\ [][(IntervalSaved /\ settings.autoSync /\ git # 0) =>
          /\ syncInterval' # 0
          /\ DOMAIN timers' = {syncInterval'}
          /\ timers'[syncInterval'] = settings.commitInterval * 60 * 1000]_vars
  /\ [][ToggleResumes(FALSE) =>
          syncInterval' = 0 /\ timers' = NoTimers]_vars

\* The interval was changed from the loaded 15 minutes to 30 and its handler
\* has restarted the timer.
C19_Witness ==
  /\ settings.commitInterval = 30
  /\ saved.commitInterval = 30
  /\ handlers = {}
  /\ syncInterval # 0
  /\ timers[syncInterval] = 30 * 60 * 1000

\* C20: whatever text is entered, the interval stored by the interval field
\* is at least 1 and the number stored by the log-entries field is greater
\* than 0; a text that is not a number or is out of range is stored as 1,
\* respectively as the default 50; no other step after the load changes the
\* two fields, and what a handler saves is the settings as they are then.
C20_StoredValuesValid ==
  /\ [][IntervalEdited => settings'.commitInterval >= 1]_vars
  /\ [][LogMaxEdited => settings'.logMaxEntries > 0]_vars
  /\ [][(~Onload /\ settings'.commitInterval # settings.commitInterval) =>
          IntervalEdited]_vars
  /\ [][(~Onload /\ settings'.logMaxEntries # settings.logMaxEntries) =>
          LogMaxEdited]_vars
  /\ [][saved' # saved => saved' = settings]_vars
  /\ [](\A text \in IntervalTexts :
          IntervalValue(text) =
            IF isNaN(Number(text)) \/ Number(text).value < 1
              THEN 1 ELSE Number(text).value)
  /\ [](\A text \in LogMaxTexts :
          LogMaxValue(text) =
            IF isNaN(parseInt(text)) \/ parseInt(text).value <= 0
              THEN 50 ELSE parseInt(text).value)

\* An interval from disk that was not positive has been replaced by 1 and
\* saved, and an invalid number of log entries has been replaced by the
\* default after 12 had been saved.
C20_Witness ==
  /\ saved.commitInterval = 1
  /\ settings.commitInterval = 1
  /\ saved.logMaxEntries = 12
  /\ settings.logMaxEntries = 50
  /\ handlers = {[kind |-> "logMax", value |-> TRUE]}

\* The order of the operations of a run (lines 816-967), with the abort of
\* a conflicting rebase (line 894) after the rebase.
ProtocolOrder ==
  <<"status", "stashPush", "fetch", "status", "rebase", "rebaseAbort",
    "stashPop", "add", "status", "commit", "push">>

\* The operations no condition guards, in their order.
Unconditional == <<"status", "fetch", "status", "add", "status">>

IsUnconditional(op) == op \in {"status", "fetch", "add"}

IsPrefix(s, t) == Len(s) <= Len(t) /\ SubSeq(t, 1, Len(s)) = s

\* s is t with some elements left out.
RECURSIVE IsSubsequence(_, _)
IsSubsequence(s, t) ==
  IF s = <<>> THEN TRUE
  ELSE IF t = <<>> THEN FALSE
  ELSE IF Head(s) = Head(t) THEN IsSubsequence(Tail(s), Tail(t))
  ELSE IsSubsequence(s, Tail(t))

\* C21: the operations a run has invoked are, in this order, status, stash
\* push, fetch, status, rebase, stash pop, stage, status, commit, push with
\* some conditional steps left out and none of the unconditional ones; an
\* operation is invoked only when the results of all earlier ones are known;
\* and a failed operation is the last one of its run, except that a rebase
\* that failed with a conflict is followed by rebase-abort and nothing else.
C21_FixedOrder ==
  \A r \in Runs :
    LET ops == run[r].ops
        res == run[r].res
    IN /\ IsSubsequence(ops, ProtocolOrder)
       /\ IsPrefix(SelectSeq(ops, IsUnconditional), Unconditional)
       /\ Len(res) \in {Len(ops) - 1, Len(ops)} \cap Nat
       /\ run[r].pc \in {"idle", "done"} \/ Len(res) = Len(ops) - 1
          \/ run[r].pc \in {"saveSynced", "saveCommitted", "saveUpToDate"}
       /\ \A i \in DOMAIN res :
            res[i] = "fail" =>
              \/ i = Len(ops)
              \/ /\ ops[i] = "rebase"
                 /\ Includes(run[r].rebaseError, P_CONFLICT)
                 /\ ops = Append(SubSeq(ops, 1, i), "rebaseAbort")
       /\ "rebaseAbort" \in Range(ops) =>
            Includes(run[r].rebaseError, P_CONFLICT)

\* A run has gone through every step of the order and ended synced.
C21_Witness ==
  \E r \in Runs :
    /\ run[r].pc = "done"
    /\ run[r].outcome = "synced"
    /\ run[r].ops = <<"status", "stashPush", "fetch", "status", "rebase",
                      "stashPop", "add", "status", "commit", "push">>

\* C22 (as claimed): the top-level handler shows the "local changes were
\* stashed, recover manually" warning only in a run that pushed a stash and
\* has not popped it successfully.
C22_WarningOnlyWhenOutstanding ==
  \A r \in Runs :
    "StashedRecoverManually" \in Range(run[r].notices) =>
      run[r].stashed /\ ~run[r].popped

\* The last status text and the last notice of a run that has ended.
FinalReport(r) ==
  [bar |-> run[r].bar[Len(run[r].bar)],
   notice |-> run[r].notices[Len(run[r].notices)]]

\* The abort of the conflicting rebase of run r failed (line 898).
AbortFailed(r) == "AbortFailedCritical" \in Range(run[r].notices)

\* C23 (as claimed): a run whose rebase-abort failed ends with the "manual
\* intervention required" error as its final report, which differs from the
\* final report of a run whose abort succeeded, and invokes no operation
\* after the abort.
C23_AbortFailureDistinct ==
  \A r \in Runs :
    (run[r].pc = "done" /\ AbortFailed(r)) =>
      /\ FinalReport(r).notice = "AbortFailedCritical"
      /\ FinalReport(r) #
           [bar |-> handleSyncError(E_RebaseAborted).bar,
            notice |-> handleSyncError(E_RebaseAborted).notice]
      /\ run[r].ops[Len(run[r].ops)] = "rebaseAbort"

\* C24 (as claimed): a run ended by the engine's rebase-conflict failure
\* ends with the rebase-specific report, and a run ended by a conflict of
\* the stash pop ends with the stash-specific report.
C24_ConflictKindsDistinguished ==
  \A r \in Runs :
    run[r].pc = "done" =>
      /\ Includes(run[r].rebaseError, P_CONFLICT) =>
           FinalReport(r) = [bar |-> "Rebase Conflict!",
                             notice |-> "ErrRebaseConflict"]
      /\ "PopConflictStashAvailable" \in Range(run[r].notices) =>
           FinalReport(r) = [bar |-> "Stash Conflict!",
                             notice |-> "ErrStashConflict"]

\* The stash-specific half of C24 on its own.
C24_StashConflictReported ==
  \A r \in Runs :
    (run[r].pc = "done" /\ "PopConflictStashAvailable" \in Range(run[r].notices)) =>
      FinalReport(r) = [bar |-> "Stash Conflict!", notice |-> "ErrStashConflict"]

\* The snapshot taken after the fetch by run r asks for a rebase.
RebaseDue(r) ==
  /\ run[r].snap.seen
  /\ run[r].snap.current
  /\ run[r].snap.tracking
  /\ run[r].snap.behind > 0

\* The position of the status after the fetch among the operations of r.
StatusAfterFetchAt(r) == IF run[r].hasLocal = "yes" THEN 4 ELSE 3

Mutating ==
  {"stashPush", "fetch", "rebase", "rebaseAbort", "stashPop", "add", "commit",
   "push"}

\* C26: a run invokes each of stash push, fetch, rebase, rebase-abort,
\* stash pop, stage, commit and push at most once, and a run whose fetch or
\* push failed has ended with a failure, that operation being its last.
C26_NoRetry ==
  \A r \in Runs :
    /\ \A op \in Mutating : Count(run[r].ops, op) <= 1
    /\ \A i \in DOMAIN run[r].res :
         (run[r].res[i] = "fail" /\ run[r].ops[i] \in {"fetch", "push"}) =>
           /\ i = Len(run[r].ops)
           /\ run[r].pc = "done"
           /\ run[r].outcome \notin Success

\* A push failed after the commit: the run has ended and the stash it had
\* pushed was popped once.
C26_Witness ==
  \E r \in Runs :
    /\ run[r].pc = "done"
    /\ run[r].ops[Len(run[r].ops)] = "push"
    /\ run[r].res[Len(run[r].res)] = "fail"
    /\ run[r].outcome = "remote"
    /\ run[r].popped

\* The kinds of report in the order of their tests, and the test of each.
Priority ==
  <<"conflict", "auth", "notrepo", "remote", "rebaseConflict", "stashConflict",
    "generic">>

Matches(error, kind) ==
  CASE kind = "conflict" ->
         \/ Includes(error.message, P_CONFLICT)
         \/ Includes(error.message, P_conflict)
         \/ error.gitConflict
    [] kind = "auth" ->
         \/ Includes(error.message, P_HostKey)
         \/ Includes(error.message, P_PermissionDenied)
    [] kind = "notrepo" -> Includes(error.message, P_NotARepo)
    [] kind = "remote" -> Includes(error.message, P_NoRemote)
    [] kind = "rebaseConflict" -> Includes(error.message, P_RebaseOperationAborted)
    [] kind = "stashConflict" -> Includes(error.message, P_ConflictApplying)
    [] kind = "generic" -> TRUE

\* The first kind in the order whose test the failure passes.
Earliest(error) ==
  Priority[CHOOSE i \in DOMAIN Priority :
             /\ Matches(error, Priority[i])
             /\ \A j \in 1..(i - 1) : ~Matches(error, Priority[j])]

StatusOf(kind) ==
  CASE kind = "conflict" -> "Conflict!"
    [] kind = "auth" -> "Auth Error"
    [] kind = "notrepo" -> "Not a repo"
    [] kind = "remote" -> "Remote Error"
    [] kind = "rebaseConflict" -> "Rebase Conflict!"
    [] kind = "stashConflict" -> "Stash Conflict!"
    [] kind = "generic" -> "Sync Error"

NoticeOf(kind) ==
  CASE kind = "conflict" -> "ErrConflict"
    [] kind = "auth" -> "ErrAuth"
    [] kind = "notrepo" -> "ErrNotARepo"
    [] kind = "remote" -> "ErrRemote"
    [] kind = "rebaseConflict" -> "ErrRebaseConflict"
    [] kind = "stashConflict" -> "ErrStashConflict"
    [] kind = "generic" -> "ErrGeneric"

\* The kinds of the first implementation in the order of their tests; its
\* conflict test looks for the upper-case marker only.
PriorityFirst == <<"conflict", "auth", "notrepo", "remote", "generic">>

MatchesFirst(error, kind) ==
  IF kind = "conflict"
    THEN Includes(error.message, P_CONFLICT) \/ error.gitConflict
    ELSE Matches(error, kind)

EarliestFirst(error) ==
  PriorityFirst[CHOOSE i \in DOMAIN PriorityFirst :
                  /\ MatchesFirst(error, PriorityFirst[i])
                  /\ \A j \in 1..(i - 1) : ~MatchesFirst(error, PriorityFirst[j])]

\* C27: the report of a failure is a function of the failure (its message
\* and whether error.git carries a failed response with "conflict"): it is
\* the report of the first kind, in the order conflict, authentication,
\* repository missing, remote unreachable, the engine's two own messages,
\* generic, whose test the failure passes; a run that was given the failure
\* ends with that kind, its status text and its notice.  The first
\* implementation follows the same order of its five kinds.
C27_FirstMatchWins ==
  /\ \A r \in Runs :
       run[r].failure.message # <<>> =>
         /\ run[r].outcome = Earliest(run[r].failure)
         /\ FinalReport(r).bar = StatusOf(Earliest(run[r].failure))
         /\ FinalReport(r).notice = NoticeOf(Earliest(run[r].failure))
  /\ \A error \in Failures :
       /\ handleSyncError(error).kind = Earliest(error)
       /\ handleSyncError(error).bar = StatusOf(Earliest(error))
       /\ handleSyncError(error).notice = NoticeOf(Earliest(error))
       /\ handleSyncErrorFirst(error).kind = EarliestFirst(error)
       /\ handleSyncErrorFirst(error).bar = StatusOf(EarliestFirst(error))

\* A failure whose message has both a conflict marker and "Permission
\* denied" was reported as a conflict.
C27_Witness ==
  \E r \in Runs :
    /\ run[r].pc = "done"
    /\ run[r].failure = Err(P_PermissionDenied \o P_CONFLICT, FALSE)
    /\ run[r].outcome = "conflict"
    /\ statusBar = "Conflict!"

\* C28 (as claimed): settings.lastSync is changed only by a run that ends
\* with a success outcome: while a run is in the protocol before its save,
\* and after a run that ended with a failure, lastSync is what it was when
\* the run started.
C28_LastSyncOnlyOnSuccess ==
  \A r \in Runs :
    (run[r].pc # "idle" /\ run[r].outcome \notin Success) =>
      \/ run[r].pc \in {"saveSynced", "saveCommitted", "saveUpToDate"}
      \/ settings.lastSync = run[r].lastSync0

\* The parts of C28 that hold: a run ended by the rejection of an operation
\* of the client, or at the stash push, leaves lastSync as it was; an
\* invocation that exits at a precondition or is rejected as busy leaves the
\* settings as they were; and the settings on disk change only in the step
\* that ends a run with a success outcome.
C28_FailedOperationKeepsLastSync ==
  /\ [](\A r \in Runs :
          (run[r].pc = "done" /\ run[r].outcome \notin Success
             /\ run[r].save = "none") =>
            settings.lastSync = run[r].lastSync0)
  /\ [][(Triggered \/ Onload) => settings'.lastSync = saved.lastSync
                                  \/ settings' = settings]_vars
  /\ [][saved' # saved =>
          \E r \in Runs : run'[r].pc = "done" /\ run[r].pc # "done"
                          /\ run'[r].outcome \in Success]_vars

\* C29 (as claimed): a run that ended with the conflict report after its
\* rebase had failed invoked rebase-abort.
C29_ConflictReportMeansAbort ==
  \A r \in Runs :
    (run[r].pc = "done" /\ run[r].rebaseError # <<>>
       /\ run[r].outcome = "conflict") =>
      "rebaseAbort" \in Range(run[r].ops)

\* C30 (as claimed): at most one timer is installed at any time, and it is
\* the one syncInterval holds; once the plugin is unloaded no timer is
\* installed.
C30_SingleTimerNoneAfterUnload ==
  /\ Cardinality(DOMAIN timers) <= 1
  /\ DOMAIN timers = (IF syncInterval = 0 THEN {} ELSE {syncInterval})
  /\ phase = "unloaded" => timers = NoTimers

\* The parts of C30 that hold: at most one timer is installed at any time,
\* it is the one syncInterval holds, and the step of onunload leaves none.
C30_SingleTimer ==
  /\ [](Cardinality(DOMAIN timers) <= 1)
  /\ [](DOMAIN timers = (IF syncInterval = 0 THEN {} ELSE {syncInterval}))
  /\ [][Onunload => timers' = NoTimers /\ syncInterval' = 0]_vars

\* C31 (as claimed): while a run is in the protocol, this.git is the client
\* the run's latest operation was issued on, which is the client the run
\* started with: no step of initializeGit replaces or clears it.
C31_ClientFixedDuringRun ==
  \A r \in InProtocol(run) : git = run[r].client

\* C32 (as claimed): whenever no handler of the settings tab is in flight,
\* a timer is installed only if settings.autoSync is true.
C32_TimerOnlyWithAutoSync ==
  handlers = {} => (timers # NoTimers => settings.autoSync)

\* The part of C32 that holds: when the handler of the toggle that set the
\* current value of autoSync resumes, it leaves a timer installed only if
\* autoSync is true; so the scheduler matches autoSync when the saves of
\* the handlers resolve in the order in which they were started.
C32_LatestToggleMatches ==
  [][ToggleResumes(settings.autoSync) =>
       (timers' # NoTimers => settings'.autoSync)]_vars

====
